---- MODULE Spec2Model ----
(***************************************************************************)
(* Model of the flickr-exporter synchronization job (photoUploader) and    *)
(* its helper downloadImage.  Two versions of the job are in the           *)
(* repository: src/src/index.ts (checkpoint = now - 24h, in seconds) and    *)
(* src/unnamed/part_000 (checkpoint = Date.now(), in milliseconds).  The    *)
(* variable `variant` says which of the two is deployed: "margin" in Spec,  *)
(* "naive" in SpecNaive.                                                    *)
(*                                                                         *)
(* `posts` holds the posts of the publishing platform, grouped by the photo  *)
(* they were created for.                                                   *)
(*                                                                         *)
(* Every `await` of the job is one action.  A collaborator call (Firebase,  *)
(* Flickr, Ghost, the file system) either succeeds or throws; the outcome   *)
(* is an input drawn with \E.                                               *)
(***************************************************************************)
EXTENDS Integers, Sequences, FiniteSets, TLC

\* ---- bounds of the model ----
\* photos in the photostream, invocations of the job, steps of the clock, and
\* collaborator calls that fail in one behaviour
MaxPhotos == 2
MaxRuns == 2
MaxTicks == 1
MaxFailures == 1

\* ---- program constants ----
DayMs == 24 * 60 * 60 * 1000
PerPage == 500
FixedTag == "flickr"

\* ---- the environment the job is run in ----
Photos == 1 .. MaxPhotos
Runs == {1, 2}
StartMs == 2 * DayMs + 500
TickMs == 36 * 60 * 60 * 1000
\* how long after its upload time a photo becomes visible in the source, in
\* seconds: at once, or (the second photo) possibly 1 hour or 25 hours late
DelaysOf(p) == IF p = 2 THEN {0, 60 * 60, 25 * 60 * 60} ELSE {0}
SP == " "
\* the tag string of each photo of the source: "beach sunset", or no tag at all
TagStringOf(p) == IF p % 2 = 1 THEN <<"beach", SP, "sunset">> ELSE <<>>
InitialGhostTags == {"beach", "flickr"}
\* code-unit order of the tag tokens, as Array.prototype.sort compares them
TagOrder == <<"", "beach", "flickr", "sunset">>

\* a photo record of the source; visibleAt (seconds) and runsBefore (the number
\* of invocations started before) record when the source began to return it
NoPhoto == [id |-> 0, dateupload |-> 0, tags |-> <<>>, visibleAt |-> 0, runsBefore |-> 0]
NoStatus == [id |-> 0, date |-> 0, tags |-> <<>>, success |-> FALSE, error |-> "null"]
Null == "null"
Undefined == "undefined"

VARIABLES variant, now, source, last_check, photo_status, ghostTags, posts,
          scratch, run, started, failures

vars == <<variant, now, source, last_check, photo_status, ghostTags, posts,
          scratch, run, started, failures>>

\* ---- pure helpers ----
Min(a, b) == IF a < b THEN a ELSE b

RECURSIVE SplitFrom(_, _, _)
SplitFrom(s, i, cur) ==
    IF i > Len(s) THEN <<cur>>
    ELSE IF s[i] = SP THEN <<cur>> \o SplitFrom(s, i + 1, "")
    ELSE SplitFrom(s, i + 1, s[i])

\* photo.tags.split(' ')
Split(s) == SplitFrom(s, 1, "")

Rank(t) == CHOOSE i \in 1 .. Len(TagOrder) : TagOrder[i] = t

RECURSIVE Insert(_, _)
Insert(t, s) ==
    IF s = <<>> THEN <<t>>
    ELSE IF Rank(t) < Rank(Head(s)) THEN <<t>> \o s
    ELSE <<Head(s)>> \o Insert(t, Tail(s))

RECURSIVE Sort(_)
Sort(s) == IF s = <<>> THEN <<>> ELSE Insert(Head(s), Sort(Tail(s)))

\* [...photo.tags.split(' '), 'flickr'].sort()
ComputeTags(tagString) == Sort(Split(tagString) \o <<FixedTag>>)

NextCheckTime_nomargin(v, nowMs) == IF v = "margin" THEN nowMs \div 1000 ELSE nowMs

\* next_check_time of the two versions of the job
NextCheckTime(v, nowMs) ==
    IF v = "margin" THEN (nowMs - DayMs) \div 1000 ELSE nowMs

\* flickr.people.getPhotos({min_upload_date}): the photos the source returns
Candidates(src, min_upload_date) ==
    {p \in Photos : src[p] # NoPhoto /\ src[p].dateupload >= min_upload_date}

\* the order of the result: Flickr lists a photostream newest first; photos
\* with the same upload time come in either order
Orderings(src, S) ==
    {s \in [1 .. Cardinality(S) -> S] :
        \A i, j \in 1 .. Cardinality(S) :
            /\ s[i] = s[j] => i = j
            /\ i < j => src[s[i]].dateupload >= src[s[j]].dateupload}

Page(s) == SubSeq(s, 1, Min(PerPage, Len(s)))

ShouldSkip_inverted(current_status) ==
    current_status # NoStatus /\ ~current_status.success

ShouldSkip_never(current_status) == FALSE

\* if (current_status && current_status.success)
ShouldSkip(current_status) == current_status # NoStatus /\ current_status.success

NewPhotoStatus(photo) ==
    [id |-> photo.id, date |-> photo.dateupload, tags |-> photo.tags,
     success |-> TRUE, error |-> Null]

IdleRun ==
    [pc |-> "idle", last_check_time |-> 0, next_check_time |-> 0, photos |-> <<>>,
     idx |-> 0, photoStatus |-> NoStatus, filePath |-> 0, uploaded |-> FALSE,
     tags |-> <<>>, ghostTags |-> {}, ti |-> 0, steps |-> <<>>,
     skipped |-> {}, abortAt |-> "none", overlapped |-> FALSE]

\* how an invocation can end: returned, thrown, never settled, process died
Ended == {"done", "aborted", "hung", "crashed"}

\* the calls made so far for the photo being processed, a history kept to
\* state the properties
Event(op, ok, tag) == [op |-> op, ok |-> ok, tag |-> tag]

Logged(rec, op, ok, tag) == [rec EXCEPT !.steps = Append(@, Event(op, ok, tag))]

CurPhoto(r) == run[r].photos[run[r].idx]

\* a collaborator call that fails uses up one of the failures explored
Outcome(ok) ==
    IF ok THEN failures' = failures
    ELSE failures < MaxFailures /\ failures' = failures + 1

\* ---- initial state: the checkpoint is pre-seeded, nothing published yet ----
Init ==
    /\ variant = "margin"
    /\ now = StartMs
    /\ source = [p \in Photos |-> NoPhoto]
    /\ last_check = (StartMs - DayMs) \div 1000
    /\ photo_status = [p \in Photos |-> NoStatus]
    /\ ghostTags = InitialGhostTags
    /\ posts = [p \in Photos |-> <<>>]
    /\ scratch = {}
    /\ run = [r \in Runs |-> IdleRun]
    /\ started = 0
    /\ failures = 0

\* ---- environment ----
\* The environment moves between runs: a run reads the clock and the source
\* once, at its start, so a step of the environment during a run commutes with
\* the steps of the run.
Quiet == \A r \in DOMAIN run : run[r].pc = "idle"

Tick ==
    /\ Quiet
    /\ now + TickMs <= StartMs + MaxTicks * TickMs
    /\ now' = now + TickMs
    /\ UNCHANGED <<failures, variant, source, last_check, photo_status, ghostTags, posts,
                   scratch, run, started>>

PhotoAppears(p, delay) ==
    /\ Quiet
    /\ source[p] = NoPhoto
    /\ \A q \in Photos : q < p => source[q] # NoPhoto
    /\ source' = [source EXCEPT ![p] =
                     [id |-> p, dateupload |-> (now \div 1000) - delay, tags |-> TagStringOf(p),
                      visibleAt |-> now \div 1000, runsBefore |-> started]]
    /\ UNCHANGED <<failures, variant, now, last_check, photo_status, ghostTags, posts,
                   scratch, run, started>>

\* ---- the job ----
\* the scheduler invokes photoUploader; at most one run is active at a time
Invoke(r) ==
    /\ \A q \in Runs : run[q].pc = "idle"
    /\ r = 1
    /\ started < MaxRuns
    /\ started' = started + 1
    /\ run' = [run EXCEPT ![r] = [IdleRun EXCEPT !.pc = "checkpoint_read"]]
    /\ UNCHANGED <<failures, variant, now, source, last_check, photo_status, ghostTags,
                   posts, scratch>>

Active(rec) == rec.pc \notin Ended \cup {"idle"}

\* the scheduler invokes photoUploader while an earlier invocation is still
\* running (nothing in the function prevents it); overlapped records, in both,
\* that they ran side by side
InvokeOverlapping(r) ==
    /\ run[r].pc = "idle"
    /\ \A q \in Runs : q < r => run[q].pc # "idle"
    /\ \E q \in Runs : Active(run[q])
    /\ started < MaxRuns
    /\ started' = started + 1
    /\ run' = [q \in Runs |->
                 IF q = r THEN [IdleRun EXCEPT !.pc = "checkpoint_read", !.overlapped = TRUE]
                 ELSE IF Active(run[q]) THEN [run[q] EXCEPT !.overlapped = TRUE]
                 ELSE run[q]]
    /\ UNCHANGED <<failures, variant, now, source, last_check, photo_status, ghostTags,
                   posts, scratch>>

\* the invocation ends without writing the checkpoint: "aborted" when an await
\* outside the try block throws, "hung" or "crashed" when it never settles;
\* only where it ended is kept of its locals
Stopped(how, where) == [IdleRun EXCEPT !.pc = how, !.abortAt = where]

Thrown(rec, where) == Stopped("aborted", where)

ReadCheckpoint(r, ok) ==
    /\ run[r].pc = "checkpoint_read"
    /\ IF ok
       THEN run' = [run EXCEPT ![r].pc = "list",
                               ![r].last_check_time = last_check,
                               ![r].next_check_time = NextCheckTime(variant, now)]
       ELSE run' = [run EXCEPT ![r] = Thrown(run[r], "checkpoint_read")]
    /\ Outcome(ok)
    /\ UNCHANGED <<variant, now, source, last_check, photo_status, ghostTags,
                   posts, scratch, started>>

LoopPc_early(photos, i) ==
    IF i > Len(photos) \/ i > 1 THEN "checkpoint_write" ELSE "status_read"

\* pc after the loop variable has taken index i
LoopPc(photos, i) == IF i > Len(photos) THEN "checkpoint_write" ELSE "status_read"

ListPhotos_advancing(r, ok) ==
    /\ run[r].pc = "list"
    /\ IF ok
       THEN \E s \in Orderings(source, Candidates(source, run[r].last_check_time)) :
               run' = [run EXCEPT ![r].photos = Page(s), ![r].idx = 1,
                                  ![r].pc = LoopPc(Page(s), 1)]
       ELSE run' = [run EXCEPT ![r] = Thrown(run[r], "list")]
    /\ Outcome(ok)
    /\ last_check' = run[r].next_check_time
    /\ UNCHANGED <<variant, now, source, photo_status, ghostTags, posts, scratch,
                   started>>

\* flickr.people.getPhotos(...), not caught
ListPhotos(r, ok) ==
    /\ run[r].pc = "list"
    /\ IF ok
       THEN \E s \in Orderings(source, Candidates(source, run[r].last_check_time)) :
               run' = [run EXCEPT ![r].photos = Page(s), ![r].idx = 1,
                                  ![r].pc = LoopPc(Page(s), 1)]
       ELSE run' = [run EXCEPT ![r] = Thrown(run[r], "list")]
    /\ Outcome(ok)
    /\ UNCHANGED <<variant, now, source, last_check, photo_status, ghostTags,
                   posts, scratch, started>>

\* the loop moves on to the next photo; the block-scoped locals are gone
NextPhoto(rec) ==
    [rec EXCEPT !.idx = rec.idx + 1, !.pc = LoopPc(rec.photos, rec.idx + 1),
                !.photoStatus = NoStatus, !.filePath = 0, !.uploaded = FALSE,
                !.tags = <<>>, !.ghostTags = {}, !.ti = 0, !.steps = <<>>]

\* await photo_status_ref.child(photo.id).get(), outside the try block
ReadStatus(r, ok) ==
    /\ run[r].pc = "status_read"
    /\ LET p == CurPhoto(r)
           rec == Logged(run[r], "status_read", ok, "") IN
       run' = [run EXCEPT ![r] =
                 IF ~ok THEN Thrown(rec, "status_read")
                 ELSE IF ShouldSkip(photo_status[p])
                    THEN NextPhoto([rec EXCEPT !.skipped = @ \cup {p}])
                 ELSE [rec EXCEPT !.pc = "download",
                                  !.photoStatus = NewPhotoStatus(source[p])]]
    /\ Outcome(ok)
    /\ UNCHANGED <<variant, now, source, last_check, photo_status, ghostTags,
                   posts, scratch, started>>

\* (e as any).message for what each step throws: the libraries throw Error
\* objects, downloadImage rejects with err.message, a string, whose .message
\* is undefined
MessageOf(step) == IF step = "download" THEN Undefined ELSE "Error"

Catch_keepsuccess(rec, step) ==
    [rec EXCEPT !.pc = "status_write",
                !.photoStatus = [rec.photoStatus EXCEPT !.error = MessageOf(step)]]

\* catch (e) { photoStatus.success = false; photoStatus.error = e.message }
Catch(rec, step) ==
    [rec EXCEPT !.pc = "status_write",
                !.photoStatus = [rec.photoStatus EXCEPT !.success = FALSE,
                                                        !.error = MessageOf(step)]]

DownloadOutcomes == {"ok", "error", "hung", "crashed"}

\* downloadImage(photo.url_o): createWriteStream creates the file; on a request
\* error the file is unlinked and only then the promise is rejected, so when
\* that unlink fails the promise never settles (the run hangs until the
\* platform kills it, or the unhandled rejection ends the process)
Download(r, outcome) ==
    /\ run[r].pc = "download"
    /\ LET p == CurPhoto(r)
           rec == Logged(run[r], "download", outcome = "ok", "") IN
       CASE outcome = "ok" ->
              /\ scratch' = scratch \cup {p}
              /\ run' = [run EXCEPT ![r] = [rec EXCEPT !.pc = "upload", !.filePath = p]]
         [] outcome = "error" ->
              /\ scratch' = scratch \ {p}
              /\ run' = [run EXCEPT ![r] = Catch(rec, "download")]
         [] outcome \in {"hung", "crashed"} ->
              /\ scratch' = scratch \cup {p}
              /\ run' = [run EXCEPT ![r] = Stopped(outcome, "download")]
    /\ Outcome(outcome = "ok")
    /\ UNCHANGED <<variant, now, source, last_check, photo_status, ghostTags,
                   posts, started>>

\* ghost.images.upload({ref: filePath, file: path.resolve(filePath)})
Upload(r, ok) ==
    /\ run[r].pc = "upload"
    /\ LET rec == Logged(run[r], "upload", ok, "") IN
       run' = [run EXCEPT ![r] = IF ok THEN [rec EXCEPT !.pc = "unlink", !.uploaded = TRUE]
                                 ELSE Catch(rec, "upload")]
    /\ Outcome(ok)
    /\ UNCHANGED <<variant, now, source, last_check, photo_status, ghostTags,
                   posts, scratch, started>>

\* await fsPromises.unlink(filePath), then the tag list is computed
Unlink(r, ok) ==
    /\ run[r].pc = "unlink"
    /\ LET rec == Logged(run[r], "unlink", ok, "") IN
       IF ok
       THEN /\ scratch' = scratch \ {run[r].filePath}
            /\ run' = [run EXCEPT ![r] =
                         [rec EXCEPT !.pc = "tags_browse",
                                     !.tags = ComputeTags(source[CurPhoto(r)].tags)]]
       ELSE /\ scratch' = scratch
            /\ run' = [run EXCEPT ![r] = Catch(rec, "unlink")]
    /\ Outcome(ok)
    /\ UNCHANGED <<variant, now, source, last_check, photo_status, ghostTags,
                   posts, started>>

\* for (const tag of tags) if (!ghostTags.includes(tag)): the next index whose
\* tag is not in the listing fetched before the loop
RECURSIVE NextMissing(_, _, _)
NextMissing(tags, listing, i) ==
    IF i > Len(tags) THEN i
    ELSE IF tags[i] \notin listing THEN i
    ELSE NextMissing(tags, listing, i + 1)

TagLoopPc(tags, i) == IF i > Len(tags) THEN "post" ELSE "tag_add"

\* ghost.tags.browse({limit: 10000})
BrowseTags(r, ok) ==
    /\ run[r].pc = "tags_browse"
    /\ LET rec == Logged(run[r], "tags_browse", ok, "")
           i == NextMissing(run[r].tags, ghostTags, 1) IN
       run' = [run EXCEPT ![r] =
                 IF ok THEN [rec EXCEPT !.ghostTags = ghostTags, !.ti = i,
                                        !.pc = TagLoopPc(rec.tags, i)]
                 ELSE Catch(rec, "tags_browse")]
    /\ Outcome(ok)
    /\ UNCHANGED <<variant, now, source, last_check, photo_status, ghostTags,
                   posts, scratch, started>>

\* ghost.tags.add({name: tag, slug: tag})
AddTag(r, ok) ==
    /\ run[r].pc = "tag_add"
    /\ LET tag == run[r].tags[run[r].ti]
           rec == Logged(run[r], "tag_add", ok, tag)
           i == NextMissing(run[r].tags, run[r].ghostTags, run[r].ti + 1) IN
       IF ok
       THEN /\ ghostTags' = ghostTags \cup {tag}
            /\ run' = [run EXCEPT ![r] = [rec EXCEPT !.ti = i, !.pc = TagLoopPc(rec.tags, i)]]
       ELSE /\ ghostTags' = ghostTags
            /\ run' = [run EXCEPT ![r] = Catch(rec, "tag_add")]
    /\ Outcome(ok)
    /\ UNCHANGED <<variant, now, source, last_check, photo_status, posts,
                   scratch, started>>

\* ghost.posts.add({... tags, published_at}, {source: 'html'})
AddPost(r, ok) ==
    /\ run[r].pc = "post"
    /\ LET p == CurPhoto(r)
           rec == Logged(run[r], "post", ok, "") IN
       IF ok
       THEN /\ posts' = [posts EXCEPT ![p] =
                            Append(@, [id |-> p, tags |-> run[r].tags,
                                       published_at |-> source[p].dateupload * 1000])]
            /\ run' = [run EXCEPT ![r] = [rec EXCEPT !.pc = "status_write"]]
       ELSE /\ posts' = posts
            /\ run' = [run EXCEPT ![r] = Catch(rec, "post")]
    /\ Outcome(ok)
    /\ UNCHANGED <<variant, now, source, last_check, photo_status, ghostTags,
                   scratch, started>>

\* Reference.set rejects a value that contains undefined
Storable(value) == value.error # Undefined

\* await photo_status_ref.child(photo.id).set(photoStatus), outside the try block
WriteStatus(r, ok) ==
    /\ run[r].pc = "status_write"
    /\ LET p == CurPhoto(r) IN
       IF ~Storable(run[r].photoStatus)
       THEN /\ photo_status' = photo_status
            /\ run' = [run EXCEPT ![r] = Thrown(run[r], "status_value")]
       ELSE IF ok
       THEN /\ photo_status' = [photo_status EXCEPT ![p] = run[r].photoStatus]
            /\ run' = [run EXCEPT ![r] = NextPhoto(run[r])]
       ELSE /\ photo_status' = photo_status
            /\ run' = [run EXCEPT ![r] = Thrown(run[r], "status_write")]
    /\ Outcome(ok \/ ~Storable(run[r].photoStatus))
    /\ UNCHANGED <<variant, now, source, last_check, ghostTags, posts, scratch,
                   started>>

\* await last_check_ref.set(next_check_time)
WriteCheckpoint(r, ok) ==
    /\ run[r].pc = "checkpoint_write"
    /\ IF ok
       THEN /\ last_check' = run[r].next_check_time
            /\ run' = [run EXCEPT ![r].pc = "done"]
       ELSE /\ last_check' = last_check
            /\ run' = [run EXCEPT ![r] = Thrown(run[r], "checkpoint_write")]
    /\ Outcome(ok)
    /\ UNCHANGED <<variant, now, source, photo_status, ghostTags, posts, scratch,
                   started>>

\* the invocation is over (the platform ends one that hangs when its time
\* limit is reached); its locals are gone
Return(r) ==
    /\ run[r].pc \in Ended
    /\ run' = [run EXCEPT ![r] = IdleRun]
    /\ UNCHANGED <<failures, variant, now, source, last_check, photo_status, ghostTags,
                   posts, scratch, started>>

Next ==
    \/ Tick
    \/ \E p \in Photos : \E d \in DelaysOf(p) : PhotoAppears(p, d)
    \/ \E r \in Runs : Invoke(r)
    \/ \E r \in Runs, ok \in BOOLEAN : ReadCheckpoint(r, ok)
    \/ \E r \in Runs, ok \in BOOLEAN : ListPhotos(r, ok)
    \/ \E r \in Runs, ok \in BOOLEAN : ReadStatus(r, ok)
    \/ \E r \in Runs, o \in DownloadOutcomes : Download(r, o)
    \/ \E r \in Runs, ok \in BOOLEAN : Upload(r, ok)
    \/ \E r \in Runs, ok \in BOOLEAN : Unlink(r, ok)
    \/ \E r \in Runs, ok \in BOOLEAN : BrowseTags(r, ok)
    \/ \E r \in Runs, ok \in BOOLEAN : AddTag(r, ok)
    \/ \E r \in Runs, ok \in BOOLEAN : AddPost(r, ok)
    \/ \E r \in Runs, ok \in BOOLEAN : WriteStatus(r, ok)
    \/ \E r \in Runs, ok \in BOOLEAN : WriteCheckpoint(r, ok)
    \/ \E r \in Runs : Return(r)

Spec == Init /\ [][Next]_vars

\* the same system with the job of src/unnamed/part_000 deployed
InitNaive == Init!2 /\ Init!3 /\ Init!4 /\ Init!5 /\ Init!6 /\ Init!7 /\ Init!8 /\ Init!9
             /\ Init!10 /\ Init!11 /\ variant = "naive"

SpecNaive == InitNaive /\ [][Next]_vars

\* the 24h-margin job under a scheduler that does not wait for a run to end:
\* two invocations remain to be started and one failure can still happen; the
\* clock is not advanced, the overlap of two runs does not depend on it
InitOverlap ==
    /\ Init!1 /\ Init!2 /\ Init!3 /\ Init!4 /\ Init!5 /\ Init!6 /\ Init!7 /\ Init!8 /\ Init!9
    /\ started = MaxRuns - 2
    /\ failures = MaxFailures - 1

NextOverlap ==
    \/ \E p \in Photos : \E d \in DelaysOf(p) : PhotoAppears(p, d)
    \/ \E r \in Runs : Invoke(r)
    \/ \E r \in Runs, ok \in BOOLEAN : ReadCheckpoint(r, ok)
    \/ \E r \in Runs, ok \in BOOLEAN : ListPhotos(r, ok)
    \/ \E r \in Runs, ok \in BOOLEAN : ReadStatus(r, ok)
    \/ \E r \in Runs, o \in DownloadOutcomes : Download(r, o)
    \/ \E r \in Runs, ok \in BOOLEAN : Upload(r, ok)
    \/ \E r \in Runs, ok \in BOOLEAN : Unlink(r, ok)
    \/ \E r \in Runs, ok \in BOOLEAN : BrowseTags(r, ok)
    \/ \E r \in Runs, ok \in BOOLEAN : AddTag(r, ok)
    \/ \E r \in Runs, ok \in BOOLEAN : AddPost(r, ok)
    \/ \E r \in Runs, ok \in BOOLEAN : WriteStatus(r, ok)
    \/ \E r \in Runs, ok \in BOOLEAN : WriteCheckpoint(r, ok)
    \/ \E r \in Runs : Return(r)
    \/ \E r \in Runs : InvokeOverlapping(r)

SpecOverlap == InitOverlap /\ [][NextOverlap]_vars

\* either version of the job is the one deployed
InitEither == Init \/ InitNaive

SpecEither == InitEither /\ [][Next]_vars

\* ---- properties ----
IsSuccess(st) == st # NoStatus /\ st.success
IsFailure(st) == st # NoStatus /\ ~st.success
PostsOf(ps, p) == Len(ps[p])
Range(s) == {s[i] : i \in 1 .. Len(s)}
Processing == {"download", "upload", "unlink", "tags_browse", "tag_add", "post", "status_write"}
\* the run has its list of candidates and is working through it
Listed == Processing \cup {"status_read", "checkpoint_write"}
Handled(rec) == {rec.photos[i] : i \in 1 .. Min(rec.idx - 1, Len(rec.photos))}
Visible(p) == source[p] # NoPhoto
Failed(rec, op) == \E i \in 1 .. Len(rec.steps) : rec.steps[i].op = op /\ ~rec.steps[i].ok
Did(rec, op) == \E i \in 1 .. Len(rec.steps) : rec.steps[i].op = op /\ rec.steps[i].ok

\* C1: no photo id ever has more than one post created for it, whatever
\* collaborator call fails in any run.
C1_AtMostOnePost == \A p \in Photos : PostsOf(posts, p) <= 1

\* C2: in a run (of the 24h-margin job) that has read the checkpoint and listed
\* the photos, every photo of the source whose persisted status is
\* success = false is among the candidates.
C2_FailedPhotoIsCandidate ==
    \A r \in Runs :
        (variant = "margin" /\ run[r].pc \in Listed) =>
            \A p \in Photos :
                (Visible(p) /\ IsFailure(photo_status[p])) => p \in Range(run[r].photos)

\* C3: a photo whose status is success = true is left alone by every step: the
\* run never enters the download, upload, unlink, tag, post or status-write
\* step for it, no post is created for it, its temporary file and its status
\* record do not change.
C3_SuccessfulPhotoUntouched ==
    [][\A p \in Photos :
          IsSuccess(photo_status[p]) =>
              /\ photo_status'[p] = photo_status[p]
              /\ PostsOf(posts', p) = PostsOf(posts, p)
              /\ (p \in scratch') = (p \in scratch)
              /\ \A r \in Runs :
                    run'[r].pc \in Processing => run'[r].photos[run'[r].idx] # p]_vars

\* a run that was handed a list of only already-successful photos has skipped
\* all of them and is about to write the checkpoint
C3_Witness ==
    \E r \in Runs :
        /\ run[r].pc = "checkpoint_write"
        /\ run[r].photos # <<>>
        /\ run[r].skipped = Range(run[r].photos)
        /\ \A p \in run[r].skipped : IsSuccess(photo_status[p]) /\ PostsOf(posts, p) = 1

\* C4: once the status of a photo is success = true, no step changes the record.
C4_SuccessIsPermanent ==
    [][\A p \in Photos :
          IsSuccess(photo_status[p]) =>
              (IsSuccess(photo_status'[p]) /\ photo_status'[p] = photo_status[p])]_vars

\* a later run lists a successful photo again, skips it, and another photo of
\* the same run has failed
C4_Witness ==
    \E r \in Runs : \E p, q \in Photos :
        /\ p \in run[r].skipped
        /\ IsSuccess(photo_status[p])
        /\ q \in Handled(run[r]) \ run[r].skipped
        /\ IsFailure(photo_status[q])

StoreFailures == {"checkpoint_read", "list", "status_read", "status_write", "checkpoint_write"}

\* C5: unless a call to the checkpoint store or the list query itself failed, a
\* run is not cut short by a photo that fails, and when it is done the
\* checkpoint is the run's next_check_time and every candidate has a status.
C5_PartialFailureIsolation ==
    \A r \in Runs :
        /\ run[r].pc \in {"aborted", "hung", "crashed"} => run[r].abortAt \in StoreFailures
        /\ run[r].pc = "done" =>
              /\ last_check = run[r].next_check_time
              /\ \A p \in Range(run[r].photos) : photo_status[p] # NoStatus

\* C6: a run never hangs or dies, and it ends by throwing before the checkpoint
\* write only when the checkpoint read or the list query failed (a throw of the
\* checkpoint write itself is a run that reached the checkpoint write).
C6_ThrowsOnlyOnReadOrList ==
    \A r \in Runs :
        /\ run[r].pc \notin {"hung", "crashed"}
        /\ run[r].pc = "aborted" =>
              run[r].abortAt \in {"checkpoint_read", "list", "checkpoint_write"}

\* C7: the status record handed to the status write has error = null exactly
\* when success = true, and a description of the failure when success = false.
C7_ErrorIffFailure ==
    \A r \in Runs :
        run[r].pc = "status_write" =>
            /\ run[r].photoStatus.success <=> run[r].photoStatus.error = Null
            /\ ~run[r].photoStatus.success => run[r].photoStatus.error \notin {Null, Undefined}

\* C8: when the run has moved on from a photo it processed, no temporary file
\* of that photo is in the scratch location.
C8_NoResidualTempFile ==
    \A r \in Runs :
        run[r].pc \in {"status_read", "checkpoint_write", "done"} =>
            \A p \in Handled(run[r]) \ run[r].skipped : p \notin scratch

\* C9: when download and upload succeeded and the deletion of the temporary
\* file failed, the photo's status is still success = true with error = null.
C9_UnlinkFailureHarmless ==
    \A r \in Runs :
        (run[r].pc = "status_write" /\ Did(run[r], "download") /\ Did(run[r], "upload")
            /\ Failed(run[r], "unlink")) =>
                (run[r].photoStatus.success /\ run[r].photoStatus.error = Null)

C11_CheckpointWrittenOnceAtEnd ==
    [][/\ last_check' # last_check =>
              \E r \in Runs : run[r].pc = "checkpoint_write" /\ run'[r].pc = "done"
       /\ \A r \in Runs :
            /\ (run[r].pc = "checkpoint_read" /\ run'[r].pc = "list") =>
                  run'[r].next_check_time =
                      (IF variant = "margin" THEN (now - DayMs) \div 1000 ELSE now)
            /\ (run[r].pc \in Listed \cup {"list"} /\ run'[r].pc \in Listed \cup {"done"}) =>
                  run'[r].next_check_time = run[r].next_check_time
            /\ run'[r].pc = "checkpoint_write" =>
                  /\ run'[r].idx = Len(run'[r].photos) + 1
                  /\ \A p \in Range(run'[r].photos) :
                        p \in run'[r].skipped \/ photo_status'[p] # NoStatus
            /\ run[r].pc = "checkpoint_write" =>
                  /\ run'[r].pc \in {"done", "aborted"}
                  /\ run'[r].pc = "done" => last_check' = run[r].next_check_time
            /\ run[r].pc = "done" => (run'[r].pc = "idle" /\ last_check' = last_check)
            /\ (run[r].pc = "status_write" /\ run'[r].pc \notin {"aborted", "status_write"}
                   /\ run[r].idx = Len(run[r].photos)) =>
                  run'[r].pc = "checkpoint_write"]_vars

\* a run is done after one of its photos failed and another succeeded, and
\* the checkpoint is the run's next_check_time
C11_Witness ==
    \E r \in Runs : \E p, q \in Photos :
        /\ run[r].pc = "done"
        /\ {p, q} \subseteq Range(run[r].photos) \ run[r].skipped
        /\ IsFailure(photo_status[p])
        /\ IsSuccess(photo_status[q])
        /\ last_check = run[r].next_check_time

\* C12: a run whose checkpoint read or list query fails has persisted nothing:
\* from its invocation to its end no step of it changes the checkpoint, a
\* status record, the platform's tags or posts, or the scratch directory.
C12_AbortPersistsNothing ==
    [][\A r \in Runs :
          (\/ run'[r].pc \in {"checkpoint_read", "list"}
           \/ run[r].pc \in {"checkpoint_read", "list"}
           \/ (run[r].pc = "aborted" /\ run[r].abortAt \in {"checkpoint_read", "list"}))
              => UNCHANGED <<last_check, photo_status, ghostTags, posts, scratch>>]_vars

\* the list query of a run failed after an earlier run had published a photo
C12_Witness ==
    \E r \in Runs : \E p \in Photos :
        /\ run[r].pc = "aborted"
        /\ run[r].abortAt = "list"
        /\ IsSuccess(photo_status[p])
        /\ PostsOf(posts, p) = 1

NonEmpty(t) == t # ""
\* the whitespace-separated tokens of a tag string
WhitespaceTokens(tagString) == SelectSeq(Split(tagString), NonEmpty)
TagAdds(rec) == SelectSeq(rec.steps, LAMBDA e : e.op = "tag_add")

\* C13: while the tags of a photo are reconciled, the tag list is the
\* whitespace-split tokens of the photo's tag string plus 'flickr', sorted
\* ascending; createTag was called only for tags of the list that are absent
\* from the platform's listing, in ascending order and once each; and every
\* post carries that list.
C13_TagReconciliation ==
    /\ \A r \in Runs :
          run[r].pc \in {"tags_browse", "tag_add", "post"} =>
              /\ run[r].tags =
                    Sort(WhitespaceTokens(source[CurPhoto(r)].tags) \o <<FixedTag>>)
              /\ \A i \in 1 .. Len(TagAdds(run[r])) :
                    /\ TagAdds(run[r])[i].tag \in Range(run[r].tags) \ run[r].ghostTags
                    /\ \A j \in 1 .. Len(TagAdds(run[r])) :
                          i < j => Rank(TagAdds(run[r])[i].tag) < Rank(TagAdds(run[r])[j].tag)
    /\ \A p \in Photos : \A i \in 1 .. Len(posts[p]) :
          posts[p][i].tags = Sort(WhitespaceTokens(source[p].tags) \o <<FixedTag>>)

\* the photo became visible less than 24 hours after its upload timestamp
ArrivedWithinDay(p) == Visible(p) /\ source[p].visibleAt - source[p].dateupload < DayMs \div 1000

C14_NaiveMissed ==
    \E r \in Runs : \E p \in Photos :
        /\ variant = "naive"
        /\ run[r].pc = "checkpoint_write" /\ run[r].photos = <<>>
        /\ source[p].visibleAt - source[p].dateupload = 3600
        /\ photo_status[p] = NoStatus

StepOrder == <<"status_read", "download", "upload", "unlink", "tags_browse", "tag_add",
               "post", "status_write">>
StepRank(pc) == CHOOSE i \in 1 .. Len(StepOrder) : StepOrder[i] = pc

C16_StatusSoundness ==
    [][\A p \in Photos :
          /\ IsSuccess(photo_status'[p]) => PostsOf(posts', p) >= 1
          /\ (photo_status'[p] # photo_status[p] /\ IsSuccess(photo_status'[p])) =>
                \E r \in Runs :
                    /\ run[r].pc = "status_write" /\ run[r].photos[run[r].idx] = p
                    /\ Did(run[r], "post") /\ ~Failed(run[r], "post")
                    /\ \E i \in 1 .. Len(posts[p]) : posts[p][i].id = p]_vars

\* one photo has a post and a status with success = true, another failed
\* before its post and has a status with success = false and no post
C16_Witness ==
    \E p, q \in Photos :
        /\ IsSuccess(photo_status[p]) /\ PostsOf(posts, p) = 1
        /\ IsFailure(photo_status[q]) /\ PostsOf(posts, q) = 0

\* C17: a run that never ran side by side with another adds no post for a
\* photo whose stored status is success = true and replaces no such status by
\* success = false; runs that overlap do both.
C17_OnlyOverlapBypassesStatus ==
    [][\A p \in Photos :
          /\ (posts'[p] # posts[p] /\ IsSuccess(photo_status[p])) =>
                \E r \in Runs : run[r].pc = "post" /\ run'[r].pc = "status_write"
                                   /\ run[r].overlapped
          /\ (IsSuccess(photo_status[p]) /\ photo_status'[p] # photo_status[p]
                 /\ ~IsSuccess(photo_status'[p])) =>
                \E r \in Runs : run[r].pc = "status_write" /\ run'[r].pc # "status_write"
                                   /\ run[r].overlapped]_vars

\* two overlapping runs both read the absent status of the same photos: one
\* photo has two posts, and a run is about to store success = false for a photo
\* whose stored status is success = true
C17_Witness ==
    \E r \in Runs : \E p \in Photos :
        /\ PostsOf(posts, p) = 2
        /\ run[r].overlapped
        /\ run[r].pc = "status_write"
        /\ ~run[r].photoStatus.success /\ Storable(run[r].photoStatus)
        /\ IsSuccess(photo_status[CurPhoto(r)])

\* C18: the stored checkpoint, and the min_upload_date a run passes to the list
\* query, are whole seconds like the upload timestamps of the photos, and so
\* never later than the clock (now, in milliseconds) read in seconds.
C18_CheckpointInSeconds ==
    /\ last_check <= now \div 1000
    /\ \A r \in Runs : run[r].pc \in Listed => run[r].last_check_time <= now \div 1000

====
